---- MODULE Spec2Model ----
(***************************************************************************)
(* Semantic analysis of grv query expressions (src/util.go): the literal   *)
(* coercion pass (ConvertTypes), the validation pass (Validate) and the    *)
(* entry point ExpressionProcessor.Process.                                *)
(*                                                                         *)
(* Expressions are nested records.  Token text of string literals is a     *)
(* sequence of one-character strings so that the date patterns, the date   *)
(* parser and the pattern compilers inspect the characters.                *)
(***************************************************************************)
EXTENDS Integers, Sequences, FiniteSets, TLC

VARIABLES expression, fieldTypeDescriptor, returned, errors, input, history, passes

vars == <<expression, fieldTypeDescriptor, returned, errors, input, history, passes>>

\* Bound on the number of calls made on one processor.
MaxCalls == 2

(***************************************************************************)
(* Field types                                                             *)
(***************************************************************************)
FtInvalid == "Invalid"
FtString == "String"
FtNumber == "Number"
FtDate == "Date"
FtGlob == "Glob"
FtRegex == "Regex"

fieldTypeNames == [t \in {FtInvalid, FtString, FtNumber, FtDate, FtGlob, FtRegex} |-> t]

bopLeft == "bopLeft"
bopRight == "bopRight"

\* The operand restriction table: operator token type -> side -> allowed types.
operatorAllowedOperandTypes ==
    [QtkCmpGlob |-> [bopLeft |-> {FtString}, bopRight |-> {FtGlob}],
     QtkCmpRegexp |-> [bopLeft |-> {FtString}, bopRight |-> {FtRegex}]]

RestrictedOperators == DOMAIN operatorAllowedOperandTypes

ComparisonOperators == {"QtkCmpEq", "QtkCmpGt", "QtkCmpGlob", "QtkCmpRegexp"}
LogicalOperators == {"QtkAnd", "QtkOr"}

(***************************************************************************)
(* Expression nodes                                                        *)
(***************************************************************************)
Nil == [kind |-> "nil"]

QueryScannerPos(col) == [line |-> 1, col |-> col]

QueryToken(tokenType, value, col) ==
    [tokenType |-> tokenType, value |-> value, startPos |-> QueryScannerPos(col)]

Identifier(name, col) == [kind |-> "Identifier", identifier |-> QueryToken("QtkIdentifier", name, col)]
StringLiteral(text, col) == [kind |-> "StringLiteral", value |-> QueryToken("QtkString", text, col)]
NumberLiteral(text, col) == [kind |-> "NumberLiteral", number |-> QueryToken("QtkNumber", text, col)]
DateLiteral(dateTime, token) == [kind |-> "DateLiteral", dateTime |-> dateTime, stringTime |-> token]
GlobLiteral(token) == [kind |-> "GlobLiteral", globString |-> token]
RegexLiteral(token) == [kind |-> "RegexLiteral", regexString |-> token]
Operator(tokenType, col) == [operator |-> QueryToken(tokenType, tokenType, col)]
UnaryExpression(col, e) == [kind |-> "UnaryExpression", operator |-> Operator("QtkNot", col), expression |-> e]
ParenExpression(col, e) == [kind |-> "ParenExpression", lparen |-> QueryScannerPos(col), expression |-> e]
BinaryExpression(op, col, l, r) ==
    [kind |-> "BinaryExpression", operator |-> Operator(op, col), lhs |-> l, rhs |-> r]

\* Source position of a node.
Pos(e) ==
    CASE e.kind = "Identifier" -> e.identifier.startPos
      [] e.kind = "StringLiteral" -> e.value.startPos
      [] e.kind = "NumberLiteral" -> e.number.startPos
      [] e.kind = "DateLiteral" -> e.stringTime.startPos
      [] e.kind = "GlobLiteral" -> e.globString.startPos
      [] e.kind = "RegexLiteral" -> e.regexString.startPos
      [] e.kind = "UnaryExpression" -> e.operator.operator.startPos
      [] e.kind = "ParenExpression" -> e.lparen
      [] e.kind = "BinaryExpression" -> e.operator.operator.startPos

IsComparison(be) == be.operator.operator.tokenType \in ComparisonOperators

\* Node kinds with both ConvertTypes and Validate methods.
IsLogicalExpression(e) == e.kind \in {"ParenExpression", "UnaryExpression", "BinaryExpression"}

\* Node kinds with a Validate method.
IsValidatableExpression(e) == IsLogicalExpression(e) \/ e.kind = "Identifier"

\* Node kinds with a FieldType method.
IsTypeDescriptor(e) ==
    e.kind \in {"Identifier", "StringLiteral", "NumberLiteral", "DateLiteral", "GlobLiteral", "RegexLiteral"}

(***************************************************************************)
(* Dates, globs and regular expressions                                    *)
(***************************************************************************)
Digits == {"0", "1", "2", "3", "4", "5", "6", "7", "8", "9"}

DigitValue(c) ==
    CASE c = "0" -> 0 [] c = "1" -> 1 [] c = "2" -> 2 [] c = "3" -> 3 [] c = "4" -> 4
      [] c = "5" -> 5 [] c = "6" -> 6 [] c = "7" -> 7 [] c = "8" -> 8 [] c = "9" -> 9

DigitChar(n) == <<"0", "1", "2", "3", "4", "5", "6", "7", "8", "9">>[n + 1]

\* ^\d{4}-\d{2}-\d{2}$
dateFormatPattern(s) ==
    /\ Len(s) = 10
    /\ \A i \in {1, 2, 3, 4, 6, 7, 9, 10} : s[i] \in Digits
    /\ s[5] = "-" /\ s[8] = "-"

\* ^\d{4}-\d{2}-\d{2} \d{2}:\d{2}:\d{2}$
dateTimeFormatPattern(s) ==
    /\ Len(s) = 19
    /\ \A i \in {1, 2, 3, 4, 6, 7, 9, 10, 12, 13, 15, 16, 18, 19} : s[i] \in Digits
    /\ s[5] = "-" /\ s[8] = "-" /\ s[11] = " " /\ s[14] = ":" /\ s[17] = ":"

Num2(s, i) == 10 * DigitValue(s[i]) + DigitValue(s[i + 1])
Num4(s, i) == 100 * Num2(s, i) + Num2(s, i + 2)

IsLeap(y) == (y % 4 = 0) /\ ((y % 100 # 0) \/ (y % 400 = 0))

DaysIn(y, m) ==
    IF m = 2 THEN (IF IsLeap(y) THEN 29 ELSE 28)
    ELSE IF m \in {4, 6, 9, 11} THEN 30 ELSE 31

\* The calendar fields read from a string that matches one of the patterns.
DateFields(s) ==
    [year |-> Num4(s, 1), month |-> Num2(s, 6), day |-> Num2(s, 9),
     hour |-> IF Len(s) = 19 THEN Num2(s, 12) ELSE 0,
     minute |-> IF Len(s) = 19 THEN Num2(s, 15) ELSE 0,
     second |-> IF Len(s) = 19 THEN Num2(s, 18) ELSE 0]

\* time.Parse succeeds only for values in range.
TimeParseOk(s) ==
    LET d == DateFields(s) IN
    /\ d.month \in 1..12
    /\ d.day \in 1..DaysIn(d.year, d.month)
    /\ d.hour \in 0..23 /\ d.minute \in 0..59 /\ d.second \in 0..59

Fmt2(n) == <<DigitChar(n \div 10), DigitChar(n % 10)>>
Fmt4(n) == Fmt2(n \div 100) \o Fmt2(n % 100)

\* dateTime.Format(queryDateTimeFormat)
DateLiteralString(d) ==
    Fmt4(d.dateTime.year) \o <<"-">> \o Fmt2(d.dateTime.month) \o <<"-">> \o Fmt2(d.dateTime.day)
      \o <<" ">> \o Fmt2(d.dateTime.hour) \o <<":">> \o Fmt2(d.dateTime.minute)
      \o <<":">> \o Fmt2(d.dateTime.second)

\* glob.Compile rejects a pattern with an unterminated character class.
RECURSIVE ClassesClosed(_, _, _)
ClassesClosed(s, i, open) ==
    IF i > Len(s) THEN ~open
    ELSE IF s[i] = "[" /\ ~open THEN ClassesClosed(s, i + 1, TRUE)
    ELSE IF s[i] = "]" /\ open THEN ClassesClosed(s, i + 1, FALSE)
    ELSE ClassesClosed(s, i + 1, open)

GlobCompileOk(s) == ClassesClosed(s, 1, FALSE)

\* regexp.Compile rejects an unterminated character class and a repetition
\* operator with nothing to repeat.
RegexCompileOk(s) ==
    /\ ClassesClosed(s, 1, FALSE)
    /\ (Len(s) > 0 => s[1] # "*")

(***************************************************************************)
(* The field type oracle                                                   *)
(***************************************************************************)
Absent == "absent"
FieldNames == {"f", "g"}
DeclaredTypes == {FtString, FtNumber, FtDate}

\* FieldTypeDescriptor.FieldType(fieldName) -> (fieldType, fieldExists)
FieldTypeOf(ftd, fieldName) ==
    IF ftd[fieldName] = Absent
    THEN [fieldType |-> FtInvalid, fieldExists |-> FALSE]
    ELSE [fieldType |-> ftd[fieldName], fieldExists |-> TRUE]

(***************************************************************************)
(* Operand restrictions                                                    *)
(***************************************************************************)
isOperandTypeRestricted(operator) == operator.operator.tokenType \in RestrictedOperators

\* Variant of isValidArgument that looks both sides up as the left one.
isValidArgumentLeftOnly(operator, operatorPosition, operandType) ==
    IF operator.operator.tokenType \notin RestrictedOperators THEN TRUE
    ELSE operandType \in operatorAllowedOperandTypes[operator.operator.tokenType][bopLeft]

isValidArgument(operator, operatorPosition, operandType) ==
    IF operator.operator.tokenType \notin RestrictedOperators THEN TRUE
    ELSE operandType \in operatorAllowedOperandTypes[operator.operator.tokenType][operatorPosition]

\* Variant of allowedTypes that lists the left side's types for both sides.
allowedTypesLeftOnly(operator, operatorPosition) ==
    IF operator.operator.tokenType \notin RestrictedOperators THEN {}
    ELSE operatorAllowedOperandTypes[operator.operator.tokenType][bopLeft]

allowedTypes(operator, operatorPosition) ==
    IF operator.operator.tokenType \notin RestrictedOperators THEN {}
    ELSE operatorAllowedOperandTypes[operator.operator.tokenType][operatorPosition]

RECURSIVE fieldTypeNamesString(_)
fieldTypeNamesString(fieldTypes) ==
    IF fieldTypes = {} THEN ""
    ELSE LET t == CHOOSE x \in fieldTypes : TRUE IN
         IF fieldTypes = {t} THEN fieldTypeNames[t]
         ELSE fieldTypeNames[t] \o ", " \o fieldTypeNamesString(fieldTypes \ {t})

(***************************************************************************)
(* FieldType of value nodes                                                *)
(***************************************************************************)
IdentifierFieldType(identifier, ftd) ==
    LET r == FieldTypeOf(ftd, identifier.identifier.value) IN
    IF r.fieldExists THEN r.fieldType ELSE FtInvalid

FieldType(e, ftd) ==
    CASE e.kind = "Identifier" -> IdentifierFieldType(e, ftd)
      [] e.kind = "StringLiteral" -> FtString
      [] e.kind = "NumberLiteral" -> FtNumber
      [] e.kind = "DateLiteral" -> FtDate
      [] e.kind = "GlobLiteral" -> FtGlob
      [] e.kind = "RegexLiteral" -> FtRegex

determineFieldType(e, ftd) ==
    IF IsTypeDescriptor(e)
    THEN [fieldType |-> FieldType(e, ftd), isValueType |-> TRUE]
    ELSE [fieldType |-> FtInvalid, isValueType |-> FALSE]

(***************************************************************************)
(* The coercion pass                                                       *)
(***************************************************************************)
\* The type assertions e.(*Identifier) and e.(*StringLiteral): Nil when the
\* node is of another kind.
asIdentifier(e) == IF e.kind = "Identifier" THEN e ELSE Nil

\* Variant of the string literal test that also takes a date literal, read
\* back through its String method.
asStringLiteralOrDate(e) ==
    IF e.kind = "StringLiteral" THEN e
    ELSE IF e.kind = "DateLiteral"
    THEN [kind |-> "StringLiteral", value |-> [e.stringTime EXCEPT !.value = DateLiteralString(e)]]
    ELSE Nil

asStringLiteral(e) == IF e.kind = "StringLiteral" THEN e ELSE Nil

\* The side detection shared by the three inferences: which operand is the
\* identifier, which the string literal, and the slot to overwrite.
detectSides(be) ==
    IF asIdentifier(be.lhs) # Nil
    THEN [identifier |-> asIdentifier(be.lhs), string |-> asStringLiteral(be.rhs), ptr |-> "rhs"]
    ELSE [identifier |-> asIdentifier(be.rhs), string |-> asStringLiteral(be.lhs), ptr |-> "lhs"]

isDateComparison(be, ftd) ==
    LET d == detectSides(be) IN
    IF d.identifier = Nil \/ d.string = Nil
    THEN [isDateComparison |-> FALSE, dateString |-> d.string, datePtr |-> d.ptr]
    ELSE LET r == FieldTypeOf(ftd, d.identifier.identifier.value) IN
         [isDateComparison |-> r.fieldExists /\ r.fieldType = FtDate,
          dateString |-> d.string, datePtr |-> d.ptr]

\* Variant of processDateComparison that ignores the error of time.Parse.
processDateComparisonUnchecked(be, ftd) ==
    LET c == isDateComparison(be, ftd) IN
    IF ~c.isDateComparison THEN be
    ELSE LET s == c.dateString.value.value IN
         IF ~(dateFormatPattern(s) \/ dateTimeFormatPattern(s)) THEN be
         ELSE [be EXCEPT ![c.datePtr] = DateLiteral(DateFields(s), c.dateString.value)]

processDateComparison(be, ftd) ==
    LET c == isDateComparison(be, ftd) IN
    IF ~c.isDateComparison THEN be
    ELSE LET s == c.dateString.value.value IN
         IF ~(dateFormatPattern(s) \/ dateTimeFormatPattern(s)) THEN be
         ELSE IF ~TimeParseOk(s) THEN be
         ELSE [be EXCEPT ![c.datePtr] = DateLiteral(DateFields(s), c.dateString.value)]

isGlobComparison(be, ftd) ==
    IF be.operator.operator.tokenType # "QtkCmpGlob"
    THEN [isGlobComparison |-> FALSE, globString |-> Nil, globPtr |-> "none"]
    ELSE LET d == detectSides(be) IN
         IF d.identifier = Nil \/ d.string = Nil
         THEN [isGlobComparison |-> FALSE, globString |-> d.string, globPtr |-> d.ptr]
         ELSE LET r == FieldTypeOf(ftd, d.identifier.identifier.value) IN
              [isGlobComparison |-> r.fieldExists /\ r.fieldType = FtString,
               globString |-> d.string, globPtr |-> d.ptr]

\* Variant of processGlobComparison that overwrites the other operand slot.
processGlobComparisonOtherSlot(be, ftd) ==
    LET c == isGlobComparison(be, ftd) IN
    IF ~c.isGlobComparison THEN be
    ELSE IF ~GlobCompileOk(c.globString.value.value) THEN be
    ELSE [be EXCEPT ![IF c.globPtr = "lhs" THEN "rhs" ELSE "lhs"] = GlobLiteral(c.globString.value)]

processGlobComparison(be, ftd) ==
    LET c == isGlobComparison(be, ftd) IN
    IF ~c.isGlobComparison THEN be
    ELSE IF ~GlobCompileOk(c.globString.value.value) THEN be
    ELSE [be EXCEPT ![c.globPtr] = GlobLiteral(c.globString.value)]

isRegexComparison(be, ftd) ==
    IF be.operator.operator.tokenType # "QtkCmpRegexp"
    THEN [isRegexComparison |-> FALSE, regexString |-> Nil, regexPtr |-> "none"]
    ELSE LET d == detectSides(be) IN
         IF d.identifier = Nil \/ d.string = Nil
         THEN [isRegexComparison |-> FALSE, regexString |-> d.string, regexPtr |-> d.ptr]
         ELSE LET r == FieldTypeOf(ftd, d.identifier.identifier.value) IN
              [isRegexComparison |-> r.fieldExists /\ r.fieldType = FtString,
               regexString |-> d.string, regexPtr |-> d.ptr]

processRegexComparison(be, ftd) ==
    LET c == isRegexComparison(be, ftd) IN
    IF ~c.isRegexComparison THEN be
    ELSE IF ~RegexCompileOk(c.regexString.value.value) THEN be
    ELSE [be EXCEPT ![c.regexPtr] = RegexLiteral(c.regexString.value)]

\* The three inferences of a comparison, in the order the code runs them.
convertComparison(be, ftd) ==
    processRegexComparison(processGlobComparison(processDateComparison(be, ftd), ftd), ftd)

RECURSIVE ConvertTypes(_, _)
ConvertTypes(e, ftd) ==
    CASE e.kind = "ParenExpression" ->
           [e EXCEPT !.expression = IF IsLogicalExpression(@) THEN ConvertTypes(@, ftd) ELSE @]
      [] e.kind = "UnaryExpression" ->
           [e EXCEPT !.expression = IF IsLogicalExpression(@) THEN ConvertTypes(@, ftd) ELSE @]
      [] e.kind = "BinaryExpression" ->
           IF ~IsComparison(e)
           THEN [e EXCEPT !.lhs = IF IsLogicalExpression(@) THEN ConvertTypes(@, ftd) ELSE @,
                          !.rhs = IF IsLogicalExpression(@) THEN ConvertTypes(@, ftd) ELSE @]
           ELSE convertComparison(e, ftd)

(***************************************************************************)
(* The validation pass                                                     *)
(***************************************************************************)
MsgInvalidField == "Invalid field: %v"
MsgParen == "Expression in parentheses must resolve to a boolean value"
MsgUnary == "%v operator can only be applied to expressions that resolve to a boolean value"
MsgLogicalOperand == "Operands of a logical operator must resolve to boolean values"
MsgValueTypes == "Comparison expressions must compare value types"
MsgLHS == "Argument on LHS has invalid type: %v. Allowed types are: %v"
MsgRHS == "Argument on RHS has invalid type: %v. Allowed types are: %v"
MsgDifferentTypes == "Attempting to compare different types - LHS Type: %v vs RHS Type: %v"
MsgExpectedLogical == "Expected logical expression but received expression of type %v"

\* The position field of an error built by fmt.Errorf, which has no position prefix.
NoPos == [line |-> 0, col |-> 0]

\* A diagnostic: the position of the node, the format string and its arguments.
GenerateExpressionError(e, errorMessage, args) ==
    [pos |-> Pos(e), msg |-> errorMessage, args |-> args]

IdentifierValidate(identifier, ftd) ==
    IF ~FieldTypeOf(ftd, identifier.identifier.value).fieldExists
    THEN <<GenerateExpressionError(identifier, MsgInvalidField, <<identifier.identifier.value>>)>>
    ELSE <<>>

\* childErrors: the diagnostics of the child when it is validatable.
ParenValidate(pe, childErrors) ==
    (IF ~IsLogicalExpression(pe.expression)
     THEN <<GenerateExpressionError(pe, MsgParen, <<>>)>> ELSE <<>>) \o childErrors

UnaryValidate(ue, childErrors) ==
    (IF ~IsLogicalExpression(ue.expression)
     THEN <<GenerateExpressionError(ue, MsgUnary, <<ue.operator.operator.value>>)>> ELSE <<>>)
      \o childErrors

\* Variant of the connective's validation that returns at the first side
\* that is not a logical expression.
LogicalValidateFirstOnly(be, lhsErrors, rhsErrors) ==
    IF ~IsLogicalExpression(be.lhs)
    THEN <<GenerateExpressionError(be, MsgLogicalOperand, <<>>)>>
    ELSE lhsErrors \o
         (IF ~IsLogicalExpression(be.rhs)
          THEN <<GenerateExpressionError(be, MsgLogicalOperand, <<>>)>> ELSE rhsErrors)

\* lhsErrors, rhsErrors: the diagnostics of a side when it is a logical expression.
LogicalValidate(be, lhsErrors, rhsErrors) ==
    (IF ~IsLogicalExpression(be.lhs)
     THEN <<GenerateExpressionError(be, MsgLogicalOperand, <<>>)>> ELSE lhsErrors)
      \o
    (IF ~IsLogicalExpression(be.rhs)
     THEN <<GenerateExpressionError(be, MsgLogicalOperand, <<>>)>> ELSE rhsErrors)

\* Variant of the type checks without the suppression for Invalid sides.
ComparisonTypeCheckNoSuppression(be, ftd) ==
    LET l == determineFieldType(be.lhs, ftd)
        r == determineFieldType(be.rhs, ftd)
        lhsType == l.fieldType
        rhsType == r.fieldType
    IN
    IF ~(l.isValueType /\ r.isValueType)
    THEN <<GenerateExpressionError(be, MsgValueTypes, <<>>)>>
    ELSE IF isOperandTypeRestricted(be.operator)
    THEN (IF ~isValidArgument(be.operator, bopLeft, lhsType)
          THEN <<GenerateExpressionError(be, MsgLHS,
                   <<fieldTypeNames[lhsType], fieldTypeNamesString(allowedTypes(be.operator, bopLeft))>>)>>
          ELSE <<>>)
          \o
         (IF ~isValidArgument(be.operator, bopRight, rhsType)
          THEN <<GenerateExpressionError(be, MsgRHS,
                   <<fieldTypeNames[rhsType], fieldTypeNamesString(allowedTypes(be.operator, bopRight))>>)>>
          ELSE <<>>)
    ELSE IF lhsType # rhsType
    THEN <<GenerateExpressionError(be, MsgDifferentTypes, <<fieldTypeNames[lhsType], fieldTypeNames[rhsType]>>)>>
    ELSE <<>>

\* The type checks of a comparison, after the diagnostics of its operands.
ComparisonTypeCheck(be, ftd) ==
    LET l == determineFieldType(be.lhs, ftd)
        r == determineFieldType(be.rhs, ftd)
        lhsType == l.fieldType
        rhsType == r.fieldType
    IN
    IF ~(l.isValueType /\ r.isValueType)
    THEN <<GenerateExpressionError(be, MsgValueTypes, <<>>)>>
    ELSE IF isOperandTypeRestricted(be.operator)
    THEN IF ~(lhsType = FtInvalid \/ rhsType = FtInvalid)
         THEN (IF ~isValidArgument(be.operator, bopLeft, lhsType)
               THEN <<GenerateExpressionError(be, MsgLHS,
                        <<fieldTypeNames[lhsType], fieldTypeNamesString(allowedTypes(be.operator, bopLeft))>>)>>
               ELSE <<>>)
               \o
              (IF ~isValidArgument(be.operator, bopRight, rhsType)
               THEN <<GenerateExpressionError(be, MsgRHS,
                        <<fieldTypeNames[rhsType], fieldTypeNamesString(allowedTypes(be.operator, bopRight))>>)>>
               ELSE <<>>)
         ELSE <<>>
    ELSE IF lhsType # rhsType /\ ~(lhsType = FtInvalid \/ rhsType = FtInvalid)
    THEN <<GenerateExpressionError(be, MsgDifferentTypes, <<fieldTypeNames[lhsType], fieldTypeNames[rhsType]>>)>>
    ELSE <<>>

RECURSIVE Validate(_, _)
Validate(e, ftd) ==
    CASE e.kind = "Identifier" -> IdentifierValidate(e, ftd)
      [] e.kind = "ParenExpression" ->
           ParenValidate(e, IF IsValidatableExpression(e.expression) THEN Validate(e.expression, ftd) ELSE <<>>)
      [] e.kind = "UnaryExpression" ->
           UnaryValidate(e, IF IsValidatableExpression(e.expression) THEN Validate(e.expression, ftd) ELSE <<>>)
      [] e.kind = "BinaryExpression" ->
           IF ~IsComparison(e)
           THEN LogicalValidate(e,
                    IF IsLogicalExpression(e.lhs) THEN Validate(e.lhs, ftd) ELSE <<>>,
                    IF IsLogicalExpression(e.rhs) THEN Validate(e.rhs, ftd) ELSE <<>>)
           ELSE (IF IsValidatableExpression(e.lhs) THEN Validate(e.lhs, ftd) ELSE <<>>)
                  \o (IF IsValidatableExpression(e.rhs) THEN Validate(e.rhs, ftd) ELSE <<>>)
                  \o ComparisonTypeCheck(e, ftd)

(***************************************************************************)
(* ExpressionProcessor.Process                                             *)
(***************************************************************************)
\* Variant of Process that still validates a root that is not a logical
\* expression but is validatable.
ProcessResultValidatesAnyway(e, ftd) ==
    IF IsLogicalExpression(e)
    THEN LET converted == ConvertTypes(e, ftd) IN
         [tree |-> converted, expression |-> converted, errors |-> Validate(converted, ftd),
          passes |-> <<"ConvertTypes", "Validate">>]
    ELSE [tree |-> e, expression |-> Nil,
          errors |-> <<[pos |-> NoPos, msg |-> MsgExpectedLogical, args |-> <<e.kind>>]>>
                       \o (IF IsValidatableExpression(e) THEN Validate(e, ftd) ELSE <<>>),
          passes |-> IF IsValidatableExpression(e) THEN <<"Validate">> ELSE <<>>]

\* The results of Process and the tree it leaves: the named result
\* `expression` is assigned only when the root is a logical expression.
ProcessResult(e, ftd) ==
    IF IsLogicalExpression(e)
    THEN LET converted == ConvertTypes(e, ftd) IN
         [tree |-> converted, expression |-> converted, errors |-> Validate(converted, ftd),
          passes |-> <<"ConvertTypes", "Validate">>]
    ELSE [tree |-> e, expression |-> Nil,
          errors |-> <<[pos |-> NoPos, msg |-> MsgExpectedLogical, args |-> <<e.kind>>]>>,
          passes |-> <<>>]

(***************************************************************************)
(* The trees handed to the processor                                       *)
(***************************************************************************)
DateText == <<"2", "0", "2", "1", "-", "0", "1", "-", "0", "1">>
BadDateText == <<"2", "0", "2", "1", "-", "1", "3", "-", "0", "1">>
DateTimeText == <<"2", "0", "2", "1", "-", "0", "6", "-", "0", "1", " ", "1", "0", ":", "3", "0", ":", "0", "0">>
GlobText == <<"a", "*">>
StarText == <<"*", "a">>
OpenClassText == <<"a", "[">>
NumberText == <<"1", "2", "3">>

Texts == {DateText, BadDateText, DateTimeText, GlobText, StarText, OpenClassText}

\* Shapes are trees without positions; Place lays a shape out, giving the
\* node at heap index col the column col (children at 2*col and 2*col+1).
SId(n) == [k |-> "id", name |-> n]
SStr(t) == [k |-> "str", text |-> t]
SNum == [k |-> "num"]
SNot(e) == [k |-> "not", e |-> e]
SParen(e) == [k |-> "paren", e |-> e]
SBin(op, l, r) == [k |-> "bin", op |-> op, l |-> l, r |-> r]

RECURSIVE Place(_, _)
Place(s, col) ==
    CASE s.k = "id" -> Identifier(s.name, col)
      [] s.k = "str" -> StringLiteral(s.text, col)
      [] s.k = "num" -> NumberLiteral(NumberText, col)
      [] s.k = "not" -> UnaryExpression(col, Place(s.e, 2 * col))
      [] s.k = "paren" -> ParenExpression(col, Place(s.e, 2 * col))
      [] s.k = "bin" -> BinaryExpression(s.op, col, Place(s.l, 2 * col), Place(s.r, 2 * col + 1))

LeafShapes == {SId(n) : n \in FieldNames} \cup {SStr(t) : t \in Texts} \cup {SNum}

ComparisonShapes == {SBin(op, l, r) : op \in ComparisonOperators, l \in LeafShapes, r \in LeafShapes}

\* Operands of the nested shapes.
SmallShapes ==
    {SId("f"), SId("g"), SStr(DateText), SNum,
     SBin("QtkCmpEq", SId("f"), SId("g")),
     SBin("QtkCmpEq", SId("f"), SStr(DateText)),
     SBin("QtkCmpGt", SStr(BadDateText), SId("g")),
     SBin("QtkCmpGlob", SId("f"), SStr(GlobText)),
     SBin("QtkCmpGt", SId("g"), SStr(DateTimeText)),
     SBin("QtkCmpRegexp", SId("g"), SNum)}

WrappedShapes == {SNot(e) : e \in SmallShapes} \cup {SParen(e) : e \in SmallShapes}

LogicalShapes == {SBin(op, l, r) : op \in LogicalOperators, l \in SmallShapes, r \in SmallShapes}

\* Comparisons with an operand that is not a value, and deeper nestings.
DeepShapes ==
    {SBin("QtkCmpEq", l, r) : l \in {SParen(SId("f")), SBin("QtkCmpEq", SId("f"), SStr(DateText))},
                              r \in {SNum, SId("g"), SNot(SId("g"))}}
    \cup {SBin("QtkCmpGlob", SStr(GlobText), SBin("QtkAnd", SId("f"), SId("g")))}
    \cup {SNot(SParen(SBin("QtkAnd", l, r))) :
            l \in {SId("f"), SBin("QtkCmpEq", SId("f"), SStr(DateText))},
            r \in {SStr(DateText), SBin("QtkCmpRegexp", SStr(GlobText), SId("g")), SNot(SId("g"))}}

Shapes == LeafShapes \cup ComparisonShapes \cup WrappedShapes \cup LogicalShapes \cup DeepShapes

Trees == {Place(s, 1) : s \in Shapes}

Oracles == [FieldNames -> DeclaredTypes \cup {Absent}]

(***************************************************************************)
(* The state machine                                                       *)
(***************************************************************************)
\* expression, fieldTypeDescriptor: the fields of the ExpressionProcessor;
\* returned, errors: the results of the last call; input: the tree as the
\* parser built it; history: the calls made; passes: the passes they ran.
Init ==
    /\ input \in Trees
    /\ expression = input
    /\ fieldTypeDescriptor \in Oracles
    /\ returned = Nil
    /\ errors = <<>>
    /\ history = <<>>
    /\ passes = <<>>

Process ==
    /\ Len(history) < MaxCalls
    /\ LET r == ProcessResult(expression, fieldTypeDescriptor) IN
       /\ expression' = r.tree
       /\ returned' = r.expression
       /\ errors' = r.errors
       /\ passes' = passes \o r.passes
    /\ history' = Append(history, "Process")
    /\ UNCHANGED <<fieldTypeDescriptor, input>>

\* A caller runs the coercion pass alone on a logical expression.
CallConvertTypes ==
    /\ Len(history) < MaxCalls
    /\ IsLogicalExpression(expression)
    /\ expression' = ConvertTypes(expression, fieldTypeDescriptor)
    /\ passes' = Append(passes, "ConvertTypes")
    /\ history' = Append(history, "ConvertTypes")
    /\ UNCHANGED <<fieldTypeDescriptor, input, returned, errors>>

\* A caller runs the validation pass alone on a validatable expression.
CallValidate ==
    /\ Len(history) < MaxCalls
    /\ IsValidatableExpression(expression)
    /\ errors' = Validate(expression, fieldTypeDescriptor)
    /\ passes' = Append(passes, "Validate")
    /\ history' = Append(history, "Validate")
    /\ UNCHANGED <<expression, fieldTypeDescriptor, input, returned>>

Next == Process \/ CallConvertTypes \/ CallValidate

Spec == Init /\ [][Next]_vars

(***************************************************************************)
(* Vocabulary of the properties                                            *)
(***************************************************************************)
RECURSIVE Nodes(_)
Nodes(e) ==
    {e} \cup
    (CASE e.kind \in {"ParenExpression", "UnaryExpression"} -> Nodes(e.expression)
       [] e.kind = "BinaryExpression" -> Nodes(e.lhs) \cup Nodes(e.rhs)
       [] OTHER -> {})

LastCall == IF history = <<>> THEN "none" ELSE history[Len(history)]

\* errors holds the diagnostics of a validation of the current tree.
ValidatedNow ==
    \/ LastCall = "Validate"
    \/ LastCall = "Process" /\ IsLogicalExpression(expression)

Coerced == \E i \in DOMAIN passes : passes[i] = "ConvertTypes"

IsComparisonNode(e) == e.kind = "BinaryExpression" /\ IsComparison(e)
IsConnectiveNode(e) == e.kind = "BinaryExpression" /\ ~IsComparison(e)

\* The number of diagnostics of a list that satisfy a test.
CountErrors(list, Test(_)) == Cardinality({i \in DOMAIN list : Test(list[i])})

ExpectedLogicalError(e) == [pos |-> NoPos, msg |-> MsgExpectedLogical, args |-> <<e.kind>>]

(***************************************************************************)
(* C1                                                                      *)
(***************************************************************************)
\* C1 as stated: for a root that is not a logical expression, Process returns
\* exactly the one 'Expected logical expression' diagnostic, runs no pass, and
\* returns the unchanged tree as its expression result.
C1_ReturnsSameTree ==
    (history = <<"Process">> /\ ~IsLogicalExpression(input)) =>
        /\ errors = <<ExpectedLogicalError(input)>>
        /\ passes = <<>>
        /\ expression = input
        /\ returned = input

\* C1 amended: for a root that is not a logical expression, Process returns
\* exactly the one 'Expected logical expression' diagnostic, runs no pass and
\* leaves the tree unchanged, and its expression result is nil.
C1_RejectsNonLogicalRoot ==
    (history = <<"Process">> /\ ~IsLogicalExpression(input)) =>
        /\ errors = <<ExpectedLogicalError(input)>>
        /\ passes = <<>>
        /\ expression = input
        /\ returned = Nil

C1_Witness ==
    /\ history = <<"Process">>
    /\ input.kind = "Identifier"
    /\ fieldTypeDescriptor[input.identifier.value] = Absent
    /\ Len(errors) = 1

(***************************************************************************)
(* C2                                                                      *)
(***************************************************************************)
Mirror(be) == [be EXCEPT !.lhs = be.rhs, !.rhs = be.lhs]

\* C2: for a comparison `field OP "s"`, processing it and processing the
\* mirrored `"s" OP field` leave the string operand the same kind of node, and
\* one diagnostic list is empty exactly when the other is.
C2_SideOrderIndependent ==
    (/\ history = <<"Process">>
     /\ IsComparisonNode(input)
     /\ input.lhs.kind = "Identifier"
     /\ input.rhs.kind = "StringLiteral") =>
        LET m == ProcessResult(Mirror(input), fieldTypeDescriptor) IN
        /\ expression.rhs.kind = m.tree.lhs.kind
        /\ (errors = <<>>) <=> (m.errors = <<>>)

(***************************************************************************)
(* C3                                                                      *)
(***************************************************************************)
NodeWellTyped(n, ftd) ==
    CASE n.kind \in {"ParenExpression", "UnaryExpression"} -> IsLogicalExpression(n.expression)
      [] IsConnectiveNode(n) -> IsLogicalExpression(n.lhs) /\ IsLogicalExpression(n.rhs)
      [] IsComparisonNode(n) ->
           /\ IsTypeDescriptor(n.lhs) /\ IsTypeDescriptor(n.rhs)
           /\ \A o \in {n.lhs, n.rhs} :
                 o.kind = "Identifier" => ftd[o.identifier.value] # Absent
           /\ IF n.operator.operator.tokenType = "QtkCmpGlob"
              THEN FieldType(n.lhs, ftd) = FtString /\ FieldType(n.rhs, ftd) = FtGlob
              ELSE IF n.operator.operator.tokenType = "QtkCmpRegexp"
              THEN FieldType(n.lhs, ftd) = FtString /\ FieldType(n.rhs, ftd) = FtRegex
              ELSE FieldType(n.lhs, ftd) = FieldType(n.rhs, ftd)
      [] OTHER -> TRUE

\* Operands of a comparison that is malformed are not inspected further.
WellTyped(e, ftd) ==
    \A n \in Nodes(e) : IsLogicalExpression(n) => NodeWellTyped(n, ftd)

\* C3: for a logical root, the diagnostics of Process are empty if and only
\* if the coerced tree is well-typed.
C3_EmptyIffWellTyped ==
    (LastCall = "Process" /\ IsLogicalExpression(input)) =>
        ((errors = <<>>) <=> WellTyped(expression, fieldTypeDescriptor))

C3_Witness ==
    /\ history = <<"Process">>
    /\ IsConnectiveNode(input)
    /\ expression # input
    /\ errors = <<>>
    /\ WellTyped(expression, fieldTypeDescriptor)

(***************************************************************************)
(* C4                                                                      *)
(***************************************************************************)
\* C4: once the coercion pass has run on the tree, no later call (a second
\* coercion included) changes the tree.
C4_CoercionIdempotent == [][Coerced => expression' = expression]_vars

C4_Witness ==
    /\ history = <<"ConvertTypes", "ConvertTypes">>
    /\ \E n \in Nodes(expression) : n.kind = "DateLiteral"
    /\ \E n \in Nodes(expression) :
          IsComparisonNode(n) /\ n.lhs.kind = "Identifier" /\ n.rhs.kind = "StringLiteral"

(***************************************************************************)
(* C5                                                                      *)
(***************************************************************************)
\* C5: after a validation, every identifier of the tree that names an absent
\* field has exactly one 'Invalid field' diagnostic at its position.
C5_EveryAbsentFieldReported ==
    ValidatedNow =>
        \A n \in Nodes(expression) :
            (n.kind = "Identifier" /\ fieldTypeDescriptor[n.identifier.value] = Absent) =>
                LET IsIt(d) == d = GenerateExpressionError(n, MsgInvalidField, <<n.identifier.value>>)
                IN CountErrors(errors, IsIt) = 1

(***************************************************************************)
(* C6                                                                      *)
(***************************************************************************)
\* A comparison of an identifier with a string literal that is eligible for
\* a coercion whose text does not parse or compile.
FailedCoercion(c, ftd) ==
    /\ IsComparisonNode(c)
    /\ \/ c.lhs.kind = "Identifier" /\ c.rhs.kind = "StringLiteral"
       \/ c.lhs.kind = "StringLiteral" /\ c.rhs.kind = "Identifier"
    /\ LET id == IF c.lhs.kind = "Identifier" THEN c.lhs ELSE c.rhs
           text == IF c.lhs.kind = "Identifier" THEN c.rhs.value.value ELSE c.lhs.value.value
           type == ftd[id.identifier.value]
           op == c.operator.operator.tokenType
       IN \/ /\ type = FtDate
             /\ ~(/\ dateFormatPattern(text) \/ dateTimeFormatPattern(text)
                  /\ TimeParseOk(text))
          \/ type = FtString /\ op = "QtkCmpGlob" /\ ~GlobCompileOk(text)
          \/ type = FtString /\ op = "QtkCmpRegexp" /\ ~RegexCompileOk(text)

\* C6: a comparison whose coercion fails is left as it was by the coercion
\* pass, which reports nothing, and the validation that follows reports a
\* 'different types' or an 'invalid type' diagnostic for that comparison.
C6_FailedCoercionDeferred ==
    \A c \in Nodes(input) :
        FailedCoercion(c, fieldTypeDescriptor) =>
            /\ c \in Nodes(expression)
            /\ history = <<"ConvertTypes">> => errors = <<>>
            /\ (Coerced /\ ValidatedNow) =>
                  \E i \in DOMAIN errors :
                      /\ errors[i].pos = Pos(c)
                      /\ errors[i].msg \in {MsgDifferentTypes, MsgLHS, MsgRHS}

C6_Witness ==
    /\ history = <<"ConvertTypes", "Validate">>
    /\ IsComparisonNode(input)
    /\ input.operator.operator.tokenType = "QtkCmpGlob"
    /\ FailedCoercion(input, fieldTypeDescriptor)
    /\ input.rhs.kind = "StringLiteral"
    /\ fieldTypeDescriptor[input.lhs.identifier.value] = FtString
    /\ Len(errors) = 1

(***************************************************************************)
(* C7 and C8                                                               *)
(***************************************************************************)
\* Comparisons whose two sides are values.
ValueComparisons(e) ==
    {c \in Nodes(e) : IsComparisonNode(c) /\ IsTypeDescriptor(c.lhs) /\ IsTypeDescriptor(c.rhs)}

HasInvalidSide(c, ftd) == FieldType(c.lhs, ftd) = FtInvalid \/ FieldType(c.rhs, ftd) = FtInvalid

RestrictedRightType(c) ==
    IF c.operator.operator.tokenType = "QtkCmpGlob" THEN FtGlob ELSE FtRegex

\* The number of diagnostics of the current list at a node with one of the messages.
CountAt(c, msgs) ==
    LET IsIt(d) == d.pos = Pos(c) /\ d.msg \in msgs IN CountErrors(errors, IsIt)

\* C7: for a glob-match or regex-match comparison of two values, neither
\* Invalid, validation reports an LHS diagnostic exactly when the left type is
\* not String, an RHS diagnostic exactly when the right type is not Glob
\* (resp. Regex), each naming the actual and the allowed type, and never a
\* 'different types' diagnostic.
C7_RestrictedOperandTypes ==
    ValidatedNow =>
        \A c \in ValueComparisons(expression) :
            (/\ c.operator.operator.tokenType \in {"QtkCmpGlob", "QtkCmpRegexp"}
             /\ ~HasInvalidSide(c, fieldTypeDescriptor)) =>
                LET l == FieldType(c.lhs, fieldTypeDescriptor)
                    r == FieldType(c.rhs, fieldTypeDescriptor)
                    IsLeft(d) == d = [pos |-> Pos(c), msg |-> MsgLHS, args |-> <<l, "String">>]
                    IsRight(d) == d = [pos |-> Pos(c), msg |-> MsgRHS,
                                       args |-> <<r, RestrictedRightType(c)>>]
                IN /\ CountErrors(errors, IsLeft) = (IF l # FtString THEN 1 ELSE 0)
                   /\ CountErrors(errors, IsRight) = (IF r # RestrictedRightType(c) THEN 1 ELSE 0)
                   /\ CountAt(c, {MsgLHS}) = CountErrors(errors, IsLeft)
                   /\ CountAt(c, {MsgRHS}) = CountErrors(errors, IsRight)
                   /\ CountAt(c, {MsgDifferentTypes}) = 0

\* A String field glob-matched against a number literal: one RHS diagnostic,
\* Number the actual type and Glob the allowed one.
C7_Witness ==
    /\ history = <<"Process">>
    /\ IsComparisonNode(input)
    /\ input.operator.operator.tokenType = "QtkCmpGlob"
    /\ input.lhs.kind = "Identifier" /\ input.rhs.kind = "NumberLiteral"
    /\ fieldTypeDescriptor[input.lhs.identifier.value] = FtString
    /\ errors = <<[pos |-> Pos(input), msg |-> MsgRHS, args |-> <<"Number", "Glob">>]>>

\* C8: for a comparison of two values with an unrestricted operator,
\* validation reports 'different types' (naming both types) exactly when the
\* types differ and neither is Invalid; when a side is Invalid, under any
\* operator, no type-check diagnostic is reported for the comparison and the
\* diagnostics of it and of its operands are 'Invalid field' ones only.
C8_DifferentTypes ==
    ValidatedNow =>
        \A c \in ValueComparisons(expression) :
            LET l == FieldType(c.lhs, fieldTypeDescriptor)
                r == FieldType(c.rhs, fieldTypeDescriptor)
                IsDiff(d) == d = [pos |-> Pos(c), msg |-> MsgDifferentTypes, args |-> <<l, r>>]
                AtComparison(d) == d.pos \in {Pos(c), Pos(c.lhs), Pos(c.rhs)}
                InvalidFieldAt(d) == AtComparison(d) /\ d.msg = MsgInvalidField
            IN /\ ~isOperandTypeRestricted(c.operator) =>
                    /\ CountErrors(errors, IsDiff) =
                          (IF l # r /\ ~HasInvalidSide(c, fieldTypeDescriptor) THEN 1 ELSE 0)
                    /\ CountAt(c, {MsgDifferentTypes}) = CountErrors(errors, IsDiff)
               /\ HasInvalidSide(c, fieldTypeDescriptor) =>
                    /\ CountAt(c, {MsgDifferentTypes, MsgLHS, MsgRHS, MsgValueTypes}) = 0
                    /\ CountErrors(errors, AtComparison) = CountErrors(errors, InvalidFieldAt)

\* A Number field compared with a string literal, and next to it a comparison
\* with an unknown field.
C8_Witness ==
    /\ ValidatedNow
    /\ \E c \in ValueComparisons(expression) :
          /\ ~isOperandTypeRestricted(c.operator)
          /\ c.lhs.kind = "Identifier" /\ c.rhs.kind = "StringLiteral"
          /\ fieldTypeDescriptor[c.lhs.identifier.value] = FtNumber
          /\ [pos |-> Pos(c), msg |-> MsgDifferentTypes, args |-> <<"Number", "String">>]
                \in {errors[i] : i \in DOMAIN errors}
    /\ \E c \in ValueComparisons(expression) :
          /\ isOperandTypeRestricted(c.operator)
          /\ HasInvalidSide(c, fieldTypeDescriptor)

(***************************************************************************)
(* C9                                                                      *)
(***************************************************************************)
\* What one side of a connective contributes: one 'Operands' diagnostic at
\* the connective when the side is not logical, its own diagnostics otherwise.
SideErrors(be, side, ftd) ==
    IF IsLogicalExpression(side)
    THEN Validate(side, ftd)
    ELSE <<GenerateExpressionError(be, MsgLogicalOperand, <<>>)>>

ConnectiveErrorsInOrder ==
    (ValidatedNow /\ IsConnectiveNode(expression)) =>
        errors = SideErrors(expression, expression.lhs, fieldTypeDescriptor)
                   \o SideErrors(expression, expression.rhs, fieldTypeDescriptor)

\* C9 as stated: the diagnostics of a connective are the left side's
\* contribution followed by the right side's, and `fieldA AND "literal"`
\* yields exactly one 'Operands of a logical operator' diagnostic.
C9_IdentifierAndLiteral ==
    /\ ConnectiveErrorsInOrder
    /\ (/\ ValidatedNow /\ IsConnectiveNode(expression)
        /\ expression.lhs.kind = "Identifier" /\ expression.rhs.kind = "StringLiteral") =>
            CountAt(expression, {MsgLogicalOperand}) = 1

\* C9 amended: the diagnostics of a connective are the left side's
\* contribution followed by the right side's; a comparison AND a string
\* literal yields exactly one 'Operands of a logical operator' diagnostic, the
\* last of the list, and a bare identifier AND a string literal yields two.
C9_LogicalOperands ==
    /\ ConnectiveErrorsInOrder
    /\ (/\ ValidatedNow /\ IsConnectiveNode(expression)
        /\ IsComparisonNode(expression.lhs) /\ expression.rhs.kind = "StringLiteral") =>
            /\ CountAt(expression, {MsgLogicalOperand}) = 1
            /\ errors[Len(errors)] = GenerateExpressionError(expression, MsgLogicalOperand, <<>>)
    /\ (/\ ValidatedNow /\ IsConnectiveNode(expression)
        /\ expression.lhs.kind = "Identifier" /\ expression.rhs.kind = "StringLiteral") =>
            CountAt(expression, {MsgLogicalOperand}) = 2

\* A valid comparison AND a string literal: the one diagnostic is the right side's.
C9_Witness ==
    /\ history = <<"Process">>
    /\ IsConnectiveNode(expression)
    /\ IsComparisonNode(expression.lhs)
    /\ expression.lhs.rhs.kind = "GlobLiteral"
    /\ expression.rhs.kind = "StringLiteral"
    /\ errors = <<GenerateExpressionError(expression, MsgLogicalOperand, <<>>)>>

(***************************************************************************)
(* C10                                                                     *)
(***************************************************************************)
TypedLiteralKinds == {"DateLiteral", "GlobLiteral", "RegexLiteral"}

TokenOf(e) ==
    CASE e.kind = "StringLiteral" -> e.value
      [] e.kind = "DateLiteral" -> e.stringTime
      [] e.kind = "GlobLiteral" -> e.globString
      [] e.kind = "RegexLiteral" -> e.regexString

\* b is the string literal a, or a typed literal that carries a's token.
Materialized(a, b) ==
    b.kind \in TypedLiteralKinds /\ TokenOf(b) = TokenOf(a)

\* b is a with, at most, string literal operands of identifier-against-string
\* comparisons replaced in place by typed literals.
RECURSIVE InPlace(_, _)
InPlace(a, b) ==
    CASE a.kind \in {"ParenExpression", "UnaryExpression"} ->
           /\ b.kind = a.kind
           /\ b = [a EXCEPT !.expression = b.expression]
           /\ InPlace(a.expression, b.expression)
      [] IsConnectiveNode(a) ->
           /\ b.kind = a.kind
           /\ b = [a EXCEPT !.lhs = b.lhs, !.rhs = b.rhs]
           /\ InPlace(a.lhs, b.lhs) /\ InPlace(a.rhs, b.rhs)
      [] IsComparisonNode(a) ->
           \/ b = a
           \/ /\ a.lhs.kind = "Identifier" /\ a.rhs.kind = "StringLiteral"
              /\ b.kind = a.kind
              /\ b = [a EXCEPT !.rhs = b.rhs]
              /\ Materialized(a.rhs, b.rhs)
           \/ /\ a.lhs.kind = "StringLiteral" /\ a.rhs.kind = "Identifier"
              /\ b.kind = a.kind
              /\ b = [a EXCEPT !.lhs = b.lhs]
              /\ Materialized(a.lhs, b.lhs)
      [] OTHER -> b = a

\* The inferences that change a comparison, run in the code's order.
FiredInferences(c, ftd) ==
    LET afterDate == processDateComparison(c, ftd)
        afterGlob == processGlobComparison(afterDate, ftd)
        afterRegex == processRegexComparison(afterGlob, ftd)
    IN {k \in {"date", "glob", "regex"} :
          \/ k = "date" /\ afterDate # c
          \/ k = "glob" /\ afterGlob # afterDate
          \/ k = "regex" /\ afterRegex # afterGlob}

\* C10: every step changes the tree at most by replacing, in place, string
\* literal operands of identifier-against-string comparisons by typed literals
\* that carry the original token; at most one inference fires per comparison;
\* a validation call changes nothing.
C10_CoercionInPlace ==
    [][/\ InPlace(expression, expression')
       /\ \A c \in Nodes(expression) :
             IsComparisonNode(c) => Cardinality(FiredInferences(c, fieldTypeDescriptor)) <= 1
       /\ history'[Len(history')] = "Validate" => expression' = expression]_vars

C10_Witness ==
    /\ history = <<"ConvertTypes", "Validate">>
    /\ IsConnectiveNode(input)
    /\ expression # input
    /\ \E n \in Nodes(expression) : n.kind = "GlobLiteral"
    /\ \E n \in Nodes(expression) : n.kind = "DateLiteral"
====
